---- MODULE Spec2Model ----
(***************************************************************************)
(* Style resolution and paint layer of blitz.                              *)
(*                                                                         *)
(* Pixel values (f32/f64 in the source) are fixed-point integers counted   *)
(* in hundredths of a pixel: 16.0 is 1600.  Unitless factors (em, rem,     *)
(* percentages as fractions) are counted in hundredths too, so that        *)
(* "2em" is the factor 200 and "50%" the fraction 50.  The attribute       *)
(* texts of the model are chosen so that every product is exact both in    *)
(* f32 and in this representation.                                         *)
(***************************************************************************)
EXTENDS Integers, Sequences, FiniteSets, TLC

VARIABLES
    \* ---- font-size cascade (text/font_size.rs) ----
    parentOf,      \* node -> its parent, NoParent for the root
    fsAttr,        \* node -> value of its "font-size" attribute
    fontSize,      \* node -> the FontSize record (FontSize.0)
    dirty,         \* nodes whose reduce is still to run
    lastReduce,    \* the most recent reduce call (history)
    edits,         \* number of attribute mutations so far
    resolving,     \* a resolve pass has started and is not finished
    sweep,         \* number of sweeps over the whole tree started so far
    \* ---- style property passes (text/text_style.rs, text/font_style.rs) ----
    tag,           \* node -> its tag
    ns,            \* node -> its namespace, "" for none
    attrs,         \* node -> its attributes, in iteration order
    textDecoration, \* node -> the TextDecoration record
    font,          \* node -> the Font record
    pending,       \* node -> the passes still to run on it
    lastPass,      \* the most recent pass call (history)
    styleEdits,    \* number of attribute mutations so far
    \* ---- geometry and paint (render.rs) ----
    kind,          \* node -> "element", "text" or "other" (NodeType)
    layout,        \* node -> its taffy Layout: location x, y and size w, h
    boxStyle,      \* node -> its Border (widths, radius, top colour), background
                   \*         and foreground colours
    focus,         \* the node whose Focused component is true, or NoParent
    scene,         \* the commands the scene builder has received this frame
    query,         \* the most recent get_shape / get_abs_pos call and its result
    \* ---- shared ----
    viewport,      \* Size<u32> of the window, in whole pixels
    panicked       \* the process hit todo!()/unreachable!()/expect

cascadeVars == <<parentOf, fsAttr, fontSize, dirty, lastReduce, edits, resolving, sweep>>
styleVars == <<tag, ns, attrs, textDecoration, font, pending, lastPass, styleEdits>>
paintVars == <<kind, layout, boxStyle, focus, scene, query>>
vars == <<cascadeVars, styleVars, paintVars, viewport, panicked>>

\* ------------------------------------------------------------------ bounds
CascadeNodes == 3
MaxEdits == 2
MaxStyleEdits == 2
NumNodes == 4
ClampSteps == 3
MaxSweeps == 2

\* --------------------------------------------------------------- constants
\* FontSize::default(), also the parent size of a parentless node and the
\* fixed "root" size of rem.
DefaultSize == 1600

NoParent == -1
CNodes == 0 .. (CascadeNodes - 1)

\* a * b for fixed-point operands in hundredths
Mul(a, b) == (a * b) \div 100

\* ------------------------------------------------- Unit Resolution Engine
\* Typed values of lightningcss, as records tagged by `t`:
\*   LengthValue            [t |-> "lv", unit, v]
\*   DimensionPercentage<T> Dimension [t |-> "dim", d], Percentage
\*                          [t |-> "pct", v], Calc [t |-> "dpcalc", c]
\*   Length                 Value [t |-> "len", d], Calc [t |-> "lencalc", c]
\*   Calc<T>                Value [t |-> "value", d], Number [t |-> "number", v],
\*                          Sum [t |-> "sum", a, b], Product [t |-> "product",
\*                          k, b], Function [t |-> "function", f]
\*   MathFunction<T>        Calc [t |-> "fcalc", c], Min/Max [t |-> "min"/"max",
\*                          args], Clamp [t |-> "clamp", lo, val, hi], and the
\*                          other functions [t |-> "abs", ...]
\*   BorderSideWidth        [t |-> "thin"/"medium"/"thick"], Length
\*                          [t |-> "bswlen", d]
LV(unit, v) == [t |-> "lv", unit |-> unit, v |-> v]
Dim(d) == [t |-> "dim", d |-> d]
Pct(v) == [t |-> "pct", v |-> v]

\* the outcome of a resolve: a value, or the panic of a todo!()/expect/unwrap
Ok(v) == [ok |-> TRUE, v |-> v]
Fatal == [ok |-> FALSE, v |-> 0]

MinOf(a, b) == IF a <= b THEN a ELSE b
MaxOf(a, b) == IF a >= b THEN a ELSE b

\* LengthValue::to_px: the absolute units have a pixel value, the others none
ToPx(unit, v) ==
    CASE unit = "in" -> Ok(v * 96)
      [] unit = "pc" -> Ok(v * 16)
      [] OTHER -> Fatal

\* impl Resolve for LengthValue; vp is Size<u32> in whole pixels
ResolveLengthValue(l, fsz, vp) ==
    CASE l.unit = "px"   -> Ok(l.v)
      [] l.unit = "vw"   -> Ok((l.v * vp.width) \div 100)
      [] l.unit = "vh"   -> Ok((l.v * vp.height) \div 100)
      [] l.unit = "vmin" -> Ok((l.v * MinOf(vp.height, vp.width)) \div 100)
      [] l.unit = "vmax" -> Ok((l.v * MaxOf(vp.height, vp.width)) \div 100)
      [] l.unit = "rem"  -> Ok(Mul(l.v, fsz))
      [] l.unit = "em"   -> Ok(Mul(l.v, 1600))
      [] OTHER -> ToPx(l.unit, l.v)

\* a + b, k * b on outcomes: a panic in an operand is the panic of the whole
AddR(a, b) == IF a.ok /\ b.ok THEN Ok(a.v + b.v) ELSE Fatal
ScaleR(k, b) == IF b.ok THEN Ok(Mul(k, b.v)) ELSE Fatal

RECURSIVE FoldMin(_), FoldMax(_)
\* Iterator::min_by / max_by over resolved values; None.unwrap() on no value
FoldMin(rs) ==
    IF Len(rs) = 0 THEN Fatal
    ELSE IF Len(rs) = 1 THEN rs[1]
    ELSE LET r == FoldMin(Tail(rs)) IN
         IF rs[1].ok /\ r.ok THEN Ok(MinOf(rs[1].v, r.v)) ELSE Fatal
FoldMax(rs) ==
    IF Len(rs) = 0 THEN Fatal
    ELSE IF Len(rs) = 1 THEN rs[1]
    ELSE LET r == FoldMax(Tail(rs)) IN
         IF rs[1].ok /\ r.ok THEN Ok(MaxOf(rs[1].v, r.v)) ELSE Fatal

\* faulty variant, for comparison: val.max(min).min(max), the order of f32::clamp
ClampR_MaxLast(lo, val, hi) ==
    IF lo.ok /\ val.ok /\ hi.ok THEN Ok(MinOf(MaxOf(val.v, lo.v), hi.v)) ELSE Fatal

\* min.max(val.min(max))
ClampR(lo, val, hi) ==
    IF lo.ok /\ val.ok /\ hi.ok THEN Ok(MaxOf(lo.v, MinOf(val.v, hi.v))) ELSE Fatal

BorderKeyword(t) ==
    CASE t = "thin" -> 200
      [] t = "medium" -> 400
      [] t = "thick" -> 600

RECURSIVE Resolve(_, _, _, _)
\* Resolve::resolve(&self, container_size, font_size, viewport_size) for every
\* implementing type
Resolve(e, container, fsz, vp) ==
    CASE e.t = "lv" -> ResolveLengthValue(e, fsz, vp)
      \* Length
      [] e.t = "len" -> Resolve(e.d, container, fsz, vp)
      [] e.t = "lencalc" -> Resolve(e.c, container, fsz, vp)
      \* DimensionPercentage<T>
      [] e.t = "dim" -> Resolve(e.d, container, fsz, vp)
      [] e.t = "pct" -> Ok(Mul(container, e.v))
      [] e.t = "dpcalc" -> Resolve(e.c, container, fsz, vp)
      \* Calc<T>
      [] e.t = "value" -> Resolve(e.d, container, fsz, vp)
      [] e.t = "number" -> Ok(e.v)
      [] e.t = "sum" ->
            AddR(Resolve(e.a, container, fsz, vp), Resolve(e.b, container, fsz, vp))
      [] e.t = "product" -> ScaleR(e.k, Resolve(e.b, container, fsz, vp))
      [] e.t = "function" -> Resolve(e.f, container, fsz, vp)
      \* MathFunction<T>
      [] e.t = "fcalc" -> Resolve(e.c, container, fsz, vp)
      [] e.t = "min" ->
            FoldMin([i \in 1 .. Len(e.args) |-> Resolve(e.args[i], container, fsz, vp)])
      [] e.t = "max" ->
            FoldMax([i \in 1 .. Len(e.args) |-> Resolve(e.args[i], container, fsz, vp)])
      [] e.t = "clamp" ->
            ClampR(Resolve(e.lo, container, fsz, vp),
                   Resolve(e.val, container, fsz, vp),
                   Resolve(e.hi, container, fsz, vp))
      \* BorderSideWidth
      [] e.t \in {"thin", "medium", "thick"} -> Ok(BorderKeyword(e.t))
      [] e.t = "bswlen" -> Resolve(e.d, container, fsz, vp)
      \* the remaining MathFunction variants: todo!()
      [] OTHER -> Fatal

\* ------------------------------------------------------------- attributes
Absent == [k |-> "absent", s |-> ""]
Text(s) == [k |-> "text", s |-> s]
\* an OwnedAttributeValue that is not Text (Float, Int, Bool, ...)
NonText(s) == [k |-> "int", s |-> s]

FontSizeTexts ==
    {"16px", "16.0px", "2em", "50%", "1rem", "larger", "x-large",
     "10vw", "calc(1px + 2px)", "bogus"}

FontSizeValues == {Text(s) : s \in FontSizeTexts} \cup {NonText("16")}

\* the variants of font::FontSize
FsLength(lp) == [ok |-> TRUE, form |-> "length", len |-> lp, kw |-> ""]
FsAbsolute(kw) == [ok |-> TRUE, form |-> "absolute", len |-> Pct(0), kw |-> kw]
FsRelative(kw) == [ok |-> TRUE, form |-> "relative", len |-> Pct(0), kw |-> kw]
ParseErr == [ok |-> FALSE, form |-> "", len |-> Pct(0), kw |-> ""]

\* font::FontSize::parse_string on the texts of the model
ParseFontSize(s) ==
    CASE s = "16px"   -> FsLength(Dim(LV("px", 1600)))
      [] s = "16.0px" -> FsLength(Dim(LV("px", 1600)))
      [] s = "2em"    -> FsLength(Dim(LV("em", 200)))
      [] s = "1rem"   -> FsLength(Dim(LV("rem", 100)))
      [] s = "10vw"   -> FsLength(Dim(LV("vw", 1000)))
      [] s = "50%"    -> FsLength(Pct(50))
      [] s = "calc(1px + 2px)" ->
            FsLength([t |-> "dpcalc",
                      c |-> [t |-> "sum",
                             a |-> [t |-> "value", d |-> Dim(LV("px", 100))],
                             b |-> [t |-> "value", d |-> Dim(LV("px", 200))]]])
      [] s = "x-large" -> FsAbsolute("x-large")
      [] s = "larger"  -> FsRelative("larger")
      [] s = "smaller" -> FsRelative("smaller")
      [] OTHER         -> ParseErr

\* ---------------------------------------------------- FontSize::reduce
\* the parent argument: Option<(&Self,)>
NoneParent == [some |-> FALSE, size |-> 0]
SomeParent(sz) == [some |-> TRUE, size |-> sz]

ParentSize(parent) == IF parent.some THEN parent.size ELSE 1600

\* faulty variant, for comparison: em taken against the default size, as the engine's Em arm does
EmSize_Default(size, parent) == Mul(size, 1600)

EmSize(size, parent) == Mul(size, parent)

RemSize(size) == Mul(size, 1600)

PercentageSize(parent, p) == Mul(parent, p)

AbsoluteSize(kw) ==
    CASE kw = "xx-small" -> 900
      [] kw = "x-small"  -> 1000
      [] kw = "small"    -> 1300
      [] kw = "medium"   -> 1600
      [] kw = "large"    -> 1800
      [] kw = "x-large"  -> 2400
      [] kw = "xx-large" -> 3200

RelativeSize(kw, parent) ==
    IF kw = "smaller" THEN parent - 200 ELSE parent + 200

\* the arms of the match that end in todo!()
ReduceTodo(p) ==
    /\ p.form = "length"
    /\ \/ p.len.t = "dim" /\ p.len.d.unit \notin {"px", "em", "rem"}
       \/ p.len.t \notin {"dim", "pct"}

\* the value of the second `let new`, for a parsed value that is not a todo!()
ReduceNew(p, parent) ==
    CASE p.form = "length" /\ p.len.t = "dim" ->
            (CASE p.len.d.unit = "px"  -> p.len.d.v
               [] p.len.d.unit = "em"  -> EmSize(p.len.d.v, parent)
               [] p.len.d.unit = "rem" -> RemSize(p.len.d.v))
      [] p.form = "length" /\ p.len.t = "pct" -> PercentageSize(parent, p.len.v)
      [] p.form = "absolute" -> AbsoluteSize(p.kw)
      [] p.form = "relative" -> RelativeSize(p.kw, parent)

\* the conditions of the early `return false` of the first `let new`
ReduceBails(attr) ==
    \/ attr.k = "absent"
    \/ attr.k # "text"
    \/ ~ParseFontSize(attr.s).ok

\* faulty variant, for comparison: an early return that falls back to the default size
ReduceBail_Default(self) == [panic |-> FALSE, ret |-> self # 1600, size |-> 1600]

\* what an early `return false` leaves: [panic, ret, size]
ReduceBail(self) == [panic |-> FALSE, ret |-> FALSE, size |-> self]

\* faulty variant, for comparison: the record is stored and reported changed without the comparison
ReduceStore_Always(self, new) == [ret |-> TRUE, size |-> new]

\* the final comparison: [ret, size]
ReduceStore(self, new) ==
    IF self # new THEN [ret |-> TRUE, size |-> new]
    ELSE [ret |-> FALSE, size |-> self]

\* faulty variant, for comparison: a node without the attribute takes over its
\* parent's size
FontSizeReduce_Inherit(self, attr, parent) ==
    IF attr.k = "absent"
    THEN LET st == ReduceStore(self, ParentSize(parent)) IN
         [panic |-> FALSE, ret |-> st.ret, size |-> st.size]
    ELSE IF ReduceBails(attr)
    THEN ReduceBail(self)
    ELSE LET p == ParseFontSize(attr.s) IN
         IF ReduceTodo(p)
         THEN [panic |-> TRUE, ret |-> FALSE, size |-> self]
         ELSE LET st == ReduceStore(self, ReduceNew(p, ParentSize(parent))) IN
              [panic |-> FALSE, ret |-> st.ret, size |-> st.size]

\* reduce(&mut self, node, parent): [panic, ret, size], size the record after
FontSizeReduce(self, attr, parent) ==
    IF ReduceBails(attr)
    THEN ReduceBail(self)
    ELSE LET p == ParseFontSize(attr.s) IN
         IF ReduceTodo(p)
         THEN [panic |-> TRUE, ret |-> FALSE, size |-> self]
         ELSE LET st == ReduceStore(self, ReduceNew(p, ParentSize(parent))) IN
              [panic |-> FALSE, ret |-> st.ret, size |-> st.size]

\* ------------------------------------------------- states of rest
NoQuery == [fn |-> "", node |-> NoParent, ok |-> TRUE, x0 |-> 0, y0 |-> 0,
            x1 |-> 0, y1 |-> 0]

\* the state of the paint layer when only another component runs
PaintIdle ==
    /\ kind = [n \in {0} |-> "element"]
    /\ layout = [n \in {0} |-> [x |-> 0, y |-> 0, w |-> 0, h |-> 0]]
    /\ boxStyle = [n \in {0} |-> 0]
    /\ focus = NoParent
    /\ scene = <<>>
    /\ query = NoQuery

\* ------------------------------------------------ TextDecoration::pass
\* TextDecoration::default(): no line flag, the default style, thickness, colour
DefaultTextDecoration ==
    [line |-> {}, thickness |-> "auto", style |-> "solid", color |-> "currentcolor"]

\* the attribute names TextDecoration::NODE_MASK watches
TdMask ==
    {"text-decoration", "text-decoration-line", "text-decoration-color",
     "text-decoration-style", "text-decoration-thickness"}

POk(v) == [ok |-> TRUE, v |-> v]
PErr == [ok |-> FALSE, v |-> {}]

\* TextDecorationLine::parse_string
ParseLine(s) ==
    CASE s = "underline" -> POk({"underline"})
      [] s = "line-through" -> POk({"line-through"})
      [] s = "underline overline" -> POk({"underline", "overline"})
      [] s = "none" -> POk({})
      [] OTHER -> PErr

\* lightningcss TextDecoration::parse_string (the shorthand): what is left
\* out takes its initial value
ParseShorthand(s) ==
    CASE s = "line-through" ->
            POk([line |-> {"line-through"}, thickness |-> "auto",
                 style |-> "solid", color |-> "currentcolor"])
      [] s = "overline wavy red" ->
            POk([line |-> {"overline"}, thickness |-> "auto",
                 style |-> "wavy", color |-> "red"])
      [] OTHER -> PErr

\* CssColor / TextDecorationStyle / TextDecorationThickness ::parse_string
ParseColor(s) == IF s \in {"red", "blue"} THEN POk(s) ELSE PErr
ParseStyle(s) == IF s \in {"wavy", "dotted"} THEN POk(s) ELSE PErr
ParseThickness(s) == IF s \in {"3px", "from-font"} THEN POk(s) ELSE PErr

\* new.line.insert(flag) for the text modifier elements
TagHeuristic(new, t, namespace) ==
    IF namespace # "" THEN new
    ELSE CASE t \in {"ins", "u"} -> [new EXCEPT !.line = @ \cup {"underline"}]
           [] t = "del" -> [new EXCEPT !.line = @ \cup {"line-through"}]
           [] OTHER -> new

\* faulty variant, for comparison: the longhand adds its flags to the ones the record holds
SetLine_Insert(new, v) == [new EXCEPT !.line = @ \cup v]

\* new.line = value
SetLine(new, v) == [new EXCEPT !.line = v]

\* one turn of the loop over the attribute list
ApplyTdAttr(new, a) ==
    IF a.value.k # "text" THEN new
    ELSE CASE a.name = "text-decoration" ->
                LET p == ParseShorthand(a.value.s) IN
                IF p.ok THEN p.v ELSE new
           [] a.name = "text-decoration-line" ->
                LET p == ParseLine(a.value.s) IN
                IF p.ok THEN SetLine(new, p.v) ELSE new
           [] a.name = "text-decoration-color" ->
                LET p == ParseColor(a.value.s) IN
                IF p.ok THEN [new EXCEPT !.color = p.v] ELSE new
           [] a.name = "text-decoration-style" ->
                LET p == ParseStyle(a.value.s) IN
                IF p.ok THEN [new EXCEPT !.style = p.v] ELSE new
           [] a.name = "text-decoration-thickness" ->
                LET p == ParseThickness(a.value.s) IN
                IF p.ok THEN [new EXCEPT !.thickness = p.v] ELSE new

\* NodeView::attributes(): the node's attributes that the pass's mask watches
Masked(as, mask) == SelectSeq(as, LAMBDA a : a.name \in mask)

RECURSIVE ApplyTdAttrs(_, _)
ApplyTdAttrs(new, as) ==
    IF Len(as) = 0 THEN new ELSE ApplyTdAttrs(ApplyTdAttr(new, Head(as)), Tail(as))

\* the record `new` at the end of pass
TextDecorationNew(t, namespace, as) ==
    ApplyTdAttrs(TagHeuristic(DefaultTextDecoration, t, namespace), Masked(as, TdMask))

\* faulty variant, for comparison: `new` starts from the record, not from the default
TextDecorationPassFn_FromSelf(self, t, namespace, as) ==
    LET new == ApplyTdAttrs(TagHeuristic(self, t, namespace), Masked(as, TdMask)) IN
    IF new # self THEN [ret |-> TRUE, rec |-> new] ELSE [ret |-> FALSE, rec |-> self]

\* pass(&mut self, node_view, ..): [ret, rec]
TextDecorationPassFn(self, t, namespace, as) ==
    LET new == TextDecorationNew(t, namespace, as) IN
    IF new # self THEN [ret |-> TRUE, rec |-> new] ELSE [ret |-> FALSE, rec |-> self]

\* --------------------------------------------------------- Font::pass
\* Font::default()
DefaultFont ==
    [family |-> <<"default">>, size |-> 1600, style |-> "normal", weight |-> "normal",
     stretch |-> "normal", line_height |-> "normal", variant_caps |-> "normal"]

\* the attribute names Font::NODE_MASK watches
FontMask ==
    {"font", "font-family", "font-size", "font-size-adjust", "font-stretch",
     "font-style", "font-variant", "font-weight"}

\* the attribute names the match in Font::pass has an arm for, besides
\* `_ => unreachable!()`
FontHandled == {}

\* the loop over the attribute list reaches unreachable!()
FontPassPanics(as) ==
    \E i \in 1 .. Len(Masked(as, FontMask)) : Masked(as, FontMask)[i].name \notin FontHandled

\* faulty variant, for comparison: a font-size arm that stores the attribute's
\* 20px, and no unreachable!()
FontPassFn_ParsesSize(self, t, namespace, as) ==
    LET new == IF \E i \in 1 .. Len(as) : as[i].name = "font-size"
               THEN [family |-> <<"default">>, size |-> 2000, style |-> "normal",
                     weight |-> "normal", stretch |-> "normal",
                     line_height |-> "normal", variant_caps |-> "normal"]
               ELSE [family |-> <<"default">>, size |-> 1600, style |-> "normal",
                     weight |-> "normal", stretch |-> "normal",
                     line_height |-> "normal", variant_caps |-> "normal"]
    IN  IF new # self THEN [panic |-> FALSE, ret |-> TRUE, rec |-> new]
        ELSE [panic |-> FALSE, ret |-> FALSE, rec |-> self]

\* pass(&mut self, node_view, ..): [panic, ret, rec]
FontPassFn(self, t, namespace, as) ==
    IF FontPassPanics(as) THEN [panic |-> TRUE, ret |-> FALSE, rec |-> self]
    ELSE LET new == DefaultFont IN
         IF new # self THEN [panic |-> FALSE, ret |-> TRUE, rec |-> new]
         ELSE [panic |-> FALSE, ret |-> FALSE, rec |-> self]

\* ------------------------------------------------ the passes' scheduler
StyleNodes == {0}

Elements == {<<"div", "">>, <<"ins", "">>, <<"u", "">>, <<"del", "">>, <<"del", "svg">>}

\* the attribute values the tree mutations of the model write
StyleAttrValues(name) ==
    CASE name = "text-decoration" ->
            {Text("line-through"), Text("overline wavy red"), Text("bogus")}
      [] name = "text-decoration-line" ->
            {Text("underline"), Text("underline overline"), Text("none"),
             Text("bogus"), NonText("1")}
      [] name = "text-decoration-color" -> {Text("red"), Text("bogus")}
      [] name = "text-decoration-style" -> {Text("wavy")}
      [] name = "text-decoration-thickness" -> {Text("3px")}
      [] name = "font" -> {Text("12px serif")}
      [] name = "font-family" -> {Text("serif")}
      [] name = "font-size" -> {Text("20px")}
      [] name = "font-size-adjust" -> {Text("0.5")}
      [] name = "font-stretch" -> {Text("condensed")}
      [] name = "font-style" -> {Text("italic")}
      [] name = "font-variant" -> {Text("small-caps")}
      [] name = "font-weight" -> {Text("bold")}
      [] name = "class" -> {Text("asd")}

StyleAttrNames == TdMask \cup FontMask \cup {"class"}

NoPass == [pass |-> "", node |-> NoParent, ret |-> FALSE]

\* the passes a change of attribute `name` triggers
Triggered(name) ==
    (IF name \in TdMask THEN {"td"} ELSE {}) \cup (IF name \in FontMask THEN {"font"} ELSE {})

HasAttr(as, name) == \E i \in 1 .. Len(as) : as[i].name = name

\* the list with the attribute put at position i
InsertAt(as, i, a) == SubSeq(as, 1, i - 1) \o <<a>> \o SubSeq(as, i, Len(as))

\* the state of the style passes when only another component runs
StyleIdle ==
    /\ tag = [n \in StyleNodes |-> "div"]
    /\ ns = [n \in StyleNodes |-> ""]
    /\ attrs = [n \in StyleNodes |-> <<>>]
    /\ textDecoration = [n \in StyleNodes |-> DefaultTextDecoration]
    /\ font = [n \in StyleNodes |-> DefaultFont]
    /\ pending = [n \in StyleNodes |-> {}]
    /\ lastPass = NoPass
    /\ styleEdits = 0

CascadeIdle ==
    /\ parentOf = [n \in {0} |-> NoParent]
    /\ fsAttr = [n \in {0} |-> Absent]
    /\ fontSize = [n \in {0} |-> DefaultSize]
    /\ dirty = {}
    /\ lastReduce = [node |-> NoParent, before |-> 0, ret |-> FALSE]
    /\ edits = 0
    /\ resolving = FALSE
    /\ sweep = 1

\* a node is created with the default records and both passes due
InitStyle ==
    /\ \E e \in Elements :
        /\ tag = [n \in StyleNodes |-> e[1]]
        /\ ns = [n \in StyleNodes |-> e[2]]
    /\ attrs = [n \in StyleNodes |-> <<>>]
    /\ textDecoration = [n \in StyleNodes |-> DefaultTextDecoration]
    /\ font = [n \in StyleNodes |-> DefaultFont]
    /\ pending = [n \in StyleNodes |-> {"td", "font"}]
    /\ lastPass = NoPass
    /\ styleEdits = 0
    /\ viewport = [width |-> 800, height |-> 600]
    /\ panicked = FALSE
    /\ CascadeIdle
    /\ PaintIdle

\* a mutation adds an attribute; the iteration order of the list is not fixed
AddAttr(n, name, v) ==
    /\ ~panicked
    /\ styleEdits < MaxStyleEdits
    /\ ~HasAttr(attrs[n], name)
    /\ \E i \in 1 .. (Len(attrs[n]) + 1) :
         attrs' = [attrs EXCEPT ![n] = InsertAt(@, i, [name |-> name, value |-> v])]
    /\ pending' = [pending EXCEPT ![n] = @ \cup Triggered(name)]
    /\ styleEdits' = styleEdits + 1
    /\ UNCHANGED <<tag, ns, textDecoration, font, lastPass, viewport, panicked>>
    /\ UNCHANGED <<cascadeVars, paintVars>>

\* a mutation changes an attribute's value
ChangeAttr(n, name, v) ==
    /\ ~panicked
    /\ styleEdits < MaxStyleEdits
    /\ \E i \in 1 .. Len(attrs[n]) :
         /\ attrs[n][i].name = name
         /\ attrs[n][i].value # v
         /\ attrs' = [attrs EXCEPT ![n][i].value = v]
    /\ pending' = [pending EXCEPT ![n] = @ \cup Triggered(name)]
    /\ styleEdits' = styleEdits + 1
    /\ UNCHANGED <<tag, ns, textDecoration, font, lastPass, viewport, panicked>>
    /\ UNCHANGED <<cascadeVars, paintVars>>

\* a mutation removes an attribute
RemoveAttr(n, name) ==
    /\ ~panicked
    /\ styleEdits < MaxStyleEdits
    /\ HasAttr(attrs[n], name)
    /\ attrs' = [attrs EXCEPT ![n] = SelectSeq(@, LAMBDA a : a.name # name)]
    /\ pending' = [pending EXCEPT ![n] = @ \cup Triggered(name)]
    /\ styleEdits' = styleEdits + 1
    /\ UNCHANGED <<tag, ns, textDecoration, font, lastPass, viewport, panicked>>
    /\ UNCHANGED <<cascadeVars, paintVars>>

TextDecorationPass(n) ==
    /\ ~panicked
    /\ "td" \in pending[n]
    /\ LET r == TextDecorationPassFn(textDecoration[n], tag[n], ns[n], attrs[n]) IN
        /\ textDecoration' = [textDecoration EXCEPT ![n] = r.rec]
        /\ lastPass' = [pass |-> "td", node |-> n, ret |-> r.ret]
    /\ pending' = [pending EXCEPT ![n] = @ \ {"td"}]
    /\ UNCHANGED <<tag, ns, attrs, font, styleEdits, viewport, panicked>>
    /\ UNCHANGED <<cascadeVars, paintVars>>

FontPass(n) ==
    /\ ~panicked
    /\ "font" \in pending[n]
    /\ LET r == FontPassFn(font[n], tag[n], ns[n], attrs[n]) IN
        /\ font' = [font EXCEPT ![n] = r.rec]
        /\ panicked' = r.panic
        /\ lastPass' = [pass |-> "font", node |-> n, ret |-> r.ret]
        /\ pending' = IF r.panic THEN pending ELSE [pending EXCEPT ![n] = @ \ {"font"}]
    /\ UNCHANGED <<tag, ns, attrs, textDecoration, styleEdits, viewport>>
    /\ UNCHANGED <<cascadeVars, paintVars>>

NextStyle ==
    \/ \E n \in StyleNodes, name \in StyleAttrNames :
         \E v \in StyleAttrValues(name) : AddAttr(n, name, v)
    \/ \E n \in StyleNodes, name \in StyleAttrNames :
         \E v \in StyleAttrValues(name) : ChangeAttr(n, name, v)
    \/ \E n \in StyleNodes, name \in StyleAttrNames : RemoveAttr(n, name)
    \/ \E n \in StyleNodes : TextDecorationPass(n)
    \/ \E n \in StyleNodes : FontPass(n)

SpecStyle == InitStyle /\ [][NextStyle]_vars

\* ------------------------------------------------- the cascade's scheduler
\* ParentDepState with DepState = (Self,): a node is reduced with its parent's
\* record, parents before children; a reduce that returns true re-runs the
\* children.
ParentArg(n) ==
    IF parentOf[n] = NoParent THEN NoneParent ELSE SomeParent(fontSize[parentOf[n]])

RECURSIVE Ancestors(_)
Ancestors(n) ==
    IF parentOf[n] = NoParent THEN {} ELSE {parentOf[n]} \cup Ancestors(parentOf[n])

ChildrenOf(n) == {c \in DOMAIN parentOf : parentOf[c] = n}

NoCall == [node |-> NoParent, before |-> 0, ret |-> FALSE]

CascadeTrees ==
    {f \in [CNodes -> CNodes \cup {NoParent}] :
        /\ f[0] = NoParent
        /\ \A n \in CNodes \ {0} : f[n] \in 0 .. (n - 1)}

InitCascade ==
    /\ parentOf \in CascadeTrees
    /\ fsAttr = [n \in CNodes |-> Absent]
    /\ fontSize = [n \in CNodes |-> DefaultSize]
    /\ dirty = CNodes
    /\ lastReduce = NoCall
    /\ edits = 0
    /\ resolving = FALSE
    /\ sweep = 1
    /\ viewport = [width |-> 800, height |-> 600]
    /\ panicked = FALSE
    /\ StyleIdle
    /\ PaintIdle

\* a mutation of the tree sets, changes or removes a node's font-size attribute
SetFontSizeAttr(n, a) ==
    /\ ~panicked
    /\ ~resolving
    /\ edits < MaxEdits
    /\ a # fsAttr[n]
    /\ fsAttr' = [fsAttr EXCEPT ![n] = a]
    /\ dirty' = dirty \cup {n}
    /\ edits' = edits + 1
    /\ UNCHANGED <<parentOf, fontSize, lastReduce, resolving, sweep, viewport, panicked>>
    /\ UNCHANGED <<styleVars, paintVars>>

ReduceNode(n) ==
    /\ ~panicked
    /\ n \in dirty
    /\ Ancestors(n) \cap dirty = {}
    /\ LET r == FontSizeReduce(fontSize[n], fsAttr[n], ParentArg(n)) IN
        /\ panicked' = r.panic
        /\ fontSize' = [fontSize EXCEPT ![n] = r.size]
        /\ dirty' = IF r.panic THEN dirty
                    ELSE (dirty \ {n}) \cup (IF r.ret THEN ChildrenOf(n) ELSE {})
        /\ resolving' = (~r.panic /\ dirty' # {})
        /\ lastReduce' = [node |-> n, before |-> fontSize[n], ret |-> r.ret]
    /\ UNCHANGED <<parentOf, fsAttr, edits, sweep, viewport>>
    /\ UNCHANGED <<styleVars, paintVars>>

NextCascade ==
    \/ \E n \in CNodes, a \in FontSizeValues \cup {Absent} : SetFontSizeAttr(n, a)
    \/ \E n \in CNodes : ReduceNode(n)

SpecCascade == InitCascade /\ [][NextCascade]_vars

\* ------------------------------------------------ sweeps over the tree
\* The passes run over a tree whose tags and attributes stay as they are:
\* every node is reduced top-down and the TextDecoration pass runs on the
\* element, and then the whole tree is swept again.  The records the first
\* sweep finds are those an earlier state of the attributes has left.
SweepAttrs == {Absent, Text("2em"), Text("50%"), Text("larger")}
SweepSizes == {1600, 3200}

SweepTdAttrs ==
    { <<>>,
      <<[name |-> "text-decoration-line", value |-> Text("underline")]>>,
      <<[name |-> "text-decoration", value |-> Text("overline wavy red")],
        [name |-> "text-decoration-line", value |-> Text("bogus")]>>,
      <<[name |-> "text-decoration-color", value |-> Text("red")],
        [name |-> "class", value |-> Text("asd")]>> }

TdRecords ==
    { DefaultTextDecoration,
      [DefaultTextDecoration EXCEPT !.line = {"overline"}],
      [DefaultTextDecoration EXCEPT !.line = {"line-through"}, !.color = "blue"] }

InitSweep ==
    /\ parentOf \in CascadeTrees
    /\ \/ /\ fsAttr \in [CNodes -> SweepAttrs]
          /\ fontSize \in [CNodes -> SweepSizes]
          /\ tag = [n \in StyleNodes |-> "div"]
          /\ ns = [n \in StyleNodes |-> ""]
          /\ attrs = [n \in StyleNodes |-> <<>>]
          /\ textDecoration \in [StyleNodes -> TdRecords]
       \/ /\ fsAttr = [n \in CNodes |-> Absent]
          /\ fontSize = [n \in CNodes |-> DefaultSize]
          /\ \E e \in Elements :
               /\ tag = [n \in StyleNodes |-> e[1]]
               /\ ns = [n \in StyleNodes |-> e[2]]
          /\ \E as \in SweepTdAttrs : attrs = [n \in StyleNodes |-> as]
          /\ textDecoration \in [StyleNodes -> TdRecords]
    /\ dirty = CNodes
    /\ pending = [n \in StyleNodes |-> {"td"}]
    /\ lastReduce = NoCall
    /\ lastPass = NoPass
    /\ edits = 0
    /\ styleEdits = 0
    /\ resolving = FALSE
    /\ sweep = 1
    /\ font = [n \in StyleNodes |-> DefaultFont]
    /\ viewport = [width |-> 800, height |-> 600]
    /\ panicked = FALSE
    /\ PaintIdle

\* the tree is swept again with the same tags and attributes
StartSweep ==
    /\ ~panicked
    /\ dirty = {}
    /\ \A n \in StyleNodes : pending[n] = {}
    /\ sweep < MaxSweeps
    /\ sweep' = sweep + 1
    /\ dirty' = DOMAIN parentOf
    /\ pending' = [n \in StyleNodes |-> {"td"}]
    /\ UNCHANGED <<parentOf, fsAttr, fontSize, lastReduce, edits, resolving>>
    /\ UNCHANGED <<tag, ns, attrs, textDecoration, font, lastPass, styleEdits>>
    /\ UNCHANGED <<paintVars, viewport, panicked>>

NextSweep ==
    \/ \E n \in CNodes : ReduceNode(n)
    \/ \E n \in StyleNodes : TextDecorationPass(n)
    \/ StartSweep

SpecSweep == InitSweep /\ [][NextSweep]_vars

\* --------------------------------------------------- geometry (render.rs)
PNodes == 0 .. (NumNodes - 1)

\* peniko::Color, 8 bits a channel
Rgba(r, g, b, a) == [r |-> r, g |-> g, b |-> b, a |-> a]
White == Rgba(255, 255, 255, 255)
Black == Rgba(0, 0, 0, 255)

\* translate_color: a channel c of the RGBA colour becomes c / 255.0, which
\* peniko stores back as the 8-bit channel c
TranslateColor(c) == Rgba(c.r, c.g, c.b, c.a)

\* axis_size(Axis::Min, size)
AxisMin(size) == MinOf(size.w, size.h)

\* node.get::<Focused>().filter(|focused| focused.0).is_some()
IsFocused(n) == focus = n

\* an edge's width in get_shape: the focus width, or the resolved border width
EdgeWidth(n, w) ==
    IF IsFocused(n) THEN Ok(600)
    ELSE Resolve(w, AxisMin(layout[n]), font[n].size, viewport)

\* faulty variant, for comparison: the rectangle inset by the whole width of the edge
Inset_Full(w) == w

\* half the width of an edge: the stroke is centred on the path
Inset(w) == w \div 2

\* get_shape(layout, node, viewport_size, location): [ok, x0, y0, x1, y1, radii],
\* the arguments given to RoundedRect::new; not ok when a resolve panics
GetShape(n, x, y) ==
    LET b == boxStyle[n]
        wl == EdgeWidth(n, b.left)
        wr == EdgeWidth(n, b.right)
        wt == EdgeWidth(n, b.top)
        wb == EdgeWidth(n, b.bottom)
        rad == Resolve(b.radius, AxisMin(layout[n]), font[n].size, viewport)
    IN  IF wl.ok /\ wr.ok /\ wt.ok /\ wb.ok /\ rad.ok
        THEN [ok |-> TRUE,
              x0 |-> x + Inset(wl.v),
              y0 |-> y + Inset(wt.v),
              x1 |-> x + layout[n].w - Inset(wr.v),
              y1 |-> y + layout[n].h - Inset(wb.v),
              radii |-> <<rad.v, rad.v, rad.v, rad.v>>]
        ELSE [ok |-> FALSE, x0 |-> 0, y0 |-> 0, x1 |-> 0, y1 |-> 0,
              radii |-> <<0, 0, 0, 0>>]

\* faulty variant, for comparison: the walk never stops at the root
IsRootSentinel_Never(parent_id) == FALSE

\* parent_id == NodeId(0)
IsRootSentinel(parent_id) == parent_id = 0

RECURSIVE AbsWalk(_, _, _)
\* the while loop of get_abs_pos, from node `current` with the sum so far
AbsWalk(x, y, current) ==
    IF parentOf[current] = NoParent THEN [x |-> x, y |-> y]
    ELSE IF IsRootSentinel(parentOf[current]) THEN [x |-> x, y |-> y]
    ELSE AbsWalk(x + layout[parentOf[current]].x, y + layout[parentOf[current]].y,
                 parentOf[current])

\* faulty variant, for comparison: the sum starts from zero, not from the node's own
\* location
GetAbsPos_FromZero(lay, n) == AbsWalk(0, 0, n)

\* get_abs_pos(layout, taffy, node)
GetAbsPos(lay, n) == AbsWalk(lay.x, lay.y, n)

\* ------------------------------------------------------ paint (render.rs)
\* scene commands; `node` names the node render_node was painting
Stroke(n, width, color, shape) ==
    [op |-> "stroke", node |-> n, width |-> width, color |-> color,
     x0 |-> shape.x0, y0 |-> shape.y0, x1 |-> shape.x1, y1 |-> shape.y1,
     radii |-> shape.radii]
Fill(n, color, shape) ==
    [op |-> "fill", node |-> n, width |-> 0, color |-> color,
     x0 |-> shape.x0, y0 |-> shape.y0, x1 |-> shape.x1, y1 |-> shape.y1,
     radii |-> shape.radii]
\* text_context.add(.., font_size, Some(color), Affine::translate(at), text)
TextRun(n, size, color, x, y) ==
    [op |-> "text", node |-> n, width |-> size, color |-> color,
     x0 |-> x, y0 |-> y, x1 |-> x, y1 |-> y, radii |-> <<0, 0, 0, 0>>]

\* shape.rect() with each side moved inward by FOCUS_BORDER_WIDTH / 2
SmallerShape(shape) ==
    [shape EXCEPT !.x0 = @ + 300, !.x1 = @ - 300, !.y0 = @ + 300, !.y1 = @ - 300]

\* faulty variant, for comparison: the black ring drawn on the inner rectangle
FocusedCommands_InnerRing(n, shape, fill_color) ==
    << Stroke(n, 300, White, shape),
       Stroke(n, 300, Black, SmallerShape(shape)),
       Fill(n, fill_color, SmallerShape(shape)) >>

\* the commands of the focused branch
FocusedCommands(n, shape, fill_color) ==
    << Stroke(n, 300, White, shape),
       Stroke(n, 300, Black, shape),
       Fill(n, fill_color, SmallerShape(shape)) >>

\* the commands of the non-focused branch; not ok when the stroke width's
\* resolve panics
PlainCommands(n, shape, fill_color) ==
    LET w == Resolve(boxStyle[n].top, AxisMin(layout[n]), font[n].size, viewport) IN
    IF w.ok
    THEN [ok |-> TRUE,
          cmds |-> << Stroke(n, w.v, TranslateColor(boxStyle[n].colorTop), shape),
                      Fill(n, fill_color, shape) >>]
    ELSE [ok |-> FALSE, cmds |-> <<>>]

\* node.children(), in document order
RECURSIVE SortedSeq(_)
SortedSeq(S) ==
    IF S = {} THEN <<>>
    ELSE LET m == CHOOSE x \in S : \A y \in S : x <= y IN <<m>> \o SortedSeq(S \ {m})
ChildSeq(n) == SortedSeq(ChildrenOf(n))

\* faulty variant, for comparison: the children painted before the element itself
PaintOrder_ChildrenFirst(own, below) == below \o own

\* an element's own commands, then those of the loop over its children
PaintOrder(own, below) == own \o below

RECURSIVE RenderNode(_, _, _), RenderChildren(_, _, _)
\* render_node(taffy, node, .., location, ..): [ok, cmds], the commands sent
\* to the scene builder, ok = FALSE when the call panicked after them
RenderNode(n, locx, locy) ==
    LET posx == locx + layout[n].x
        posy == locy + layout[n].y
    IN  CASE kind[n] = "text" ->
                [ok |-> TRUE,
                 cmds |-> << TextRun(n, 1600, TranslateColor(boxStyle[n].foreground),
                                     posx, posy + 1600) >>]
          [] kind[n] = "element" ->
                LET shape == GetShape(n, posx, posy)
                    fill_color == TranslateColor(boxStyle[n].background)
                IN  IF ~shape.ok THEN [ok |-> FALSE, cmds |-> <<>>]
                    ELSE LET own == IF IsFocused(n)
                                    THEN [ok |-> TRUE,
                                          cmds |-> FocusedCommands(n, shape, fill_color)]
                                    ELSE PlainCommands(n, shape, fill_color)
                         IN  IF ~own.ok THEN own
                             ELSE LET below == RenderChildren(ChildSeq(n), posx, posy) IN
                                  [ok |-> below.ok,
                                   cmds |-> PaintOrder(own.cmds, below.cmds)]
          [] OTHER -> [ok |-> TRUE, cmds |-> <<>>]

\* for child in node.children() { render_node(.., child, .., pos, ..) }
RenderChildren(cs, posx, posy) ==
    IF Len(cs) = 0 THEN [ok |-> TRUE, cmds |-> <<>>]
    ELSE LET first == RenderNode(Head(cs), posx, posy) IN
         IF ~first.ok THEN first
         ELSE LET rest == RenderChildren(Tail(cs), posx, posy) IN
              [ok |-> rest.ok, cmds |-> first.cmds \o rest.cmds]

\* the white fill of the root's layout rectangle that render() starts with
RootFill ==
    Fill(NoParent, White,
         [x0 |-> layout[0].x, y0 |-> layout[0].y,
          x1 |-> layout[0].x + layout[0].w, y1 |-> layout[0].y + layout[0].h,
          radii |-> <<0, 0, 0, 0>>])

\* ------------------------------------------------- the documents painted
Layouts ==
    << [x |-> 1000, y |-> 1000, w |-> 10000, h |-> 10000],
       [x |-> 500, y |-> 0, w |-> 8000, h |-> 6000],
       [x |-> 0, y |-> 500, w |-> 4000, h |-> 5000] >>

RootOffsets == {<<0, 0>>, <<300, 400>>}

\* BorderSideWidth::Length(Length::Value(v))
BswLen(unit, v) == [t |-> "bswlen", d |-> [t |-> "len", d |-> LV(unit, v)]]
\* BorderSideWidth::Length(Length::Calc(a + b))
BswSum(a, b) ==
    [t |-> "bswlen",
     d |-> [t |-> "lencalc",
            c |-> [t |-> "sum",
                   a |-> [t |-> "value", d |-> [t |-> "len", d |-> a]],
                   b |-> [t |-> "value", d |-> [t |-> "len", d |-> b]]]]]

Borders ==
    << [left |-> BswLen("px", 1000), right |-> BswLen("px", 1000),
        top |-> BswLen("px", 1000), bottom |-> BswLen("px", 1000),
        radius |-> Dim(LV("px", 0))],
       [left |-> [t |-> "thin"], right |-> [t |-> "thick"],
        top |-> [t |-> "medium"], bottom |-> BswLen("px", 800),
        radius |-> Pct(10)],
       [left |-> BswLen("vw", 100), right |-> BswSum(LV("px", 100), LV("px", 200)),
        top |-> BswLen("rem", 100), bottom |-> BswLen("em", 100),
        radius |-> Dim(LV("rem", 25))],
       [left |-> BswLen("ex", 100), right |-> BswLen("px", 200),
        top |-> BswLen("px", 200), bottom |-> BswLen("px", 200),
        radius |-> Dim(LV("px", 0))] >>

Viewports == {[width |-> 800, height |-> 600]}

\* the style of node n: border shiftB of the table, colours of its own
BoxStyleOf(n, shiftB) ==
    LET b == Borders[((n + shiftB) % Len(Borders)) + 1] IN
    [left |-> b.left, right |-> b.right, top |-> b.top, bottom |-> b.bottom,
     radius |-> b.radius,
     colorTop |-> Rgba(0, 10 * n, 0, 255),
     background |-> Rgba(10 * n, 0, 0, 255),
     foreground |-> Rgba(0, 0, 10 * n, 255)]

LayoutOf(n, shiftL, root) ==
    IF n = 0 THEN [x |-> root[1], y |-> root[2], w |-> 20000, h |-> 15000]
    ELSE Layouts[((n - 1 + shiftL) % Len(Layouts)) + 1]

PaintTrees ==
    {f \in [PNodes -> PNodes \cup {NoParent}] :
        /\ f[0] = NoParent
        /\ \A n \in PNodes \ {0} : f[n] \in 0 .. (n - 1)}

\* a laid-out document: the root is an element, only leaves are text or other
\* nodes, every node has its layout, style and default Font record; the
\* passes due on it are the specification's
InitDocument ==
    /\ parentOf \in PaintTrees
    /\ kind \in [PNodes -> {"element", "text", "other"}]
    /\ \A n \in PNodes :
         (n = 0 \/ \E c \in PNodes : parentOf[c] = n) => kind[n] = "element"
    /\ \E shiftL \in 0 .. (Len(Layouts) - 1), root \in RootOffsets :
         layout = [n \in PNodes |-> LayoutOf(n, shiftL, root)]
    /\ \E shiftB \in 0 .. (Len(Borders) - 1) :
         boxStyle = [n \in PNodes |-> BoxStyleOf(n, shiftB)]
    /\ viewport \in Viewports
    /\ scene = <<>>
    /\ query = NoQuery
    /\ panicked = FALSE
    /\ fsAttr = [n \in PNodes |-> Absent]
    /\ fontSize = [n \in PNodes |-> DefaultSize]
    /\ dirty = {}
    /\ lastReduce = NoCall
    /\ edits = 0
    /\ resolving = FALSE
    /\ sweep = 1
    /\ tag = [n \in PNodes |-> "div"]
    /\ ns = [n \in PNodes |-> ""]
    /\ attrs = [n \in PNodes |-> <<>>]
    /\ textDecoration = [n \in PNodes |-> DefaultTextDecoration]
    /\ font = [n \in PNodes |-> DefaultFont]
    /\ lastPass = NoPass
    /\ styleEdits = 0

InitPaint ==
    /\ InitDocument
    /\ pending = [n \in PNodes |-> {}]
    /\ focus = NoParent

\* the focus moves to an element, or away; the frame is to be painted anew
SetFocus(n) ==
    /\ ~panicked
    /\ n # focus
    /\ n # NoParent => kind[n] = "element"
    /\ focus' = n
    /\ scene' = <<>>
    /\ UNCHANGED <<kind, layout, boxStyle, query, viewport, panicked>>
    /\ UNCHANGED <<cascadeVars, styleVars>>

\* render(dom, taffy, text_context, scene_builder, window_size)
Render ==
    /\ ~panicked
    /\ scene = <<>>
    /\ LET r == RenderNode(0, 0, 0) IN
        /\ scene' = <<RootFill>> \o r.cmds
        /\ panicked' = ~r.ok
    /\ UNCHANGED <<kind, layout, boxStyle, focus, query, viewport>>
    /\ UNCHANGED <<cascadeVars, styleVars>>

NextPaint ==
    \/ \E n \in PNodes \cup {NoParent} : SetFocus(n)
    \/ Render

SpecPaint == InitPaint /\ [][NextPaint]_vars

\* the geometry functions on the nodes of a document, as the event and paint
\* code calls them
InitGeom ==
    /\ InitDocument
    /\ \A n \in PNodes : kind[n] = "element"
    /\ pending = [n \in PNodes |-> {}]
    /\ focus \in PNodes \cup {NoParent}

\* the position render_node has accumulated for n: the layout offsets of n and
\* of all its ancestors, from Point::ZERO
RECURSIVE PaintPos(_)
PaintPos(n) ==
    IF parentOf[n] = NoParent THEN [x |-> layout[n].x, y |-> layout[n].y]
    ELSE [x |-> PaintPos(parentOf[n]).x + layout[n].x,
          y |-> PaintPos(parentOf[n]).y + layout[n].y]

CallGetShape(n) ==
    /\ ~panicked
    /\ LET sh == GetShape(n, PaintPos(n).x, PaintPos(n).y) IN
        /\ query' = [fn |-> "get_shape", node |-> n, ok |-> sh.ok,
                     x0 |-> sh.x0, y0 |-> sh.y0, x1 |-> sh.x1, y1 |-> sh.y1]
        /\ panicked' = ~sh.ok
    /\ UNCHANGED <<kind, layout, boxStyle, focus, scene, viewport>>
    /\ UNCHANGED <<cascadeVars, styleVars>>

CallGetAbsPos(n) ==
    /\ ~panicked
    /\ LET pt == GetAbsPos(layout[n], n) IN
        query' = [fn |-> "get_abs_pos", node |-> n, ok |-> TRUE,
                  x0 |-> pt.x, y0 |-> pt.y, x1 |-> pt.x, y1 |-> pt.y]
    /\ UNCHANGED <<kind, layout, boxStyle, focus, scene, viewport, panicked>>
    /\ UNCHANGED <<cascadeVars, styleVars>>

NextGeom ==
    \/ \E n \in PNodes : CallGetShape(n)
    \/ \E n \in PNodes : CallGetAbsPos(n)

SpecGeom == InitGeom /\ [][NextGeom]_vars

\* the Font pass and the geometry of one document: every node is created with
\* the default Font record and the Font pass due, mutations add attributes to
\* one element, and the frame is painted or get_shape called at any moment
StyledNodes == {NumNodes - 2}
StyledNames == {"class", "font-size"}

InitStyledPaint ==
    /\ InitDocument
    /\ \A n \in PNodes : n # NumNodes - 1 => kind[n] = "element"
    /\ layout[0].x = 0
    /\ layout[1].w = 10000
    /\ pending = [n \in PNodes |-> {"font"}]
    /\ focus = NoParent

\* the passes due run in the order of the node ids
NextStyledPaint ==
    \/ \E n \in StyledNodes, name \in StyledNames :
         \E v \in StyleAttrValues(name) : AddAttr(n, name, v)
    \/ \E n \in PNodes :
         /\ \A m \in 0 .. (n - 1) : pending[m] = {}
         /\ FontPass(n)
    \/ \E n \in PNodes : CallGetShape(n)
    \/ Render

SpecStyledPaint == InitStyledPaint /\ [][NextStyledPaint]_vars

\* painting a document and asking for its nodes' absolute positions, as the
\* paint and the event code do on the same tree
InitPositions ==
    /\ InitPaint
    /\ boxStyle = [n \in PNodes |-> BoxStyleOf(n, 0)]

NextPositions ==
    \/ NextPaint
    \/ \E n \in PNodes : CallGetAbsPos(n)

SpecPositions == InitPositions /\ [][NextPositions]_vars

\* a document whose root has a top border width of clamp(lo, val, hi):
\* BorderSideWidth::Length(Length::Calc(Calc::Function(MathFunction::Clamp)))
CalcLen(unit, v) == [t |-> "value", d |-> [t |-> "len", d |-> LV(unit, v)]]

BswClamp(lo, val, hi) ==
    [t |-> "bswlen",
     d |-> [t |-> "lencalc",
            c |-> [t |-> "function",
                   f |-> [t |-> "clamp", lo |-> lo, val |-> val, hi |-> hi]]]]

\* operands in px, rem and vw, and one in a unit resolve has no conversion for
ClampOperands ==
    {CalcLen("px", k * 100) : k \in 0 .. ClampSteps}
        \cup {CalcLen("rem", 25), CalcLen("vw", 100), CalcLen("ex", 100)}

InitClamp ==
    /\ parentOf = [n \in PNodes |-> IF n = 0 THEN NoParent ELSE 0]
    /\ kind = [n \in PNodes |-> IF n = 0 THEN "element" ELSE "other"]
    /\ layout = [n \in PNodes |-> LayoutOf(n, 0, <<0, 0>>)]
    /\ \E lo \in ClampOperands, val \in ClampOperands, hi \in ClampOperands :
         boxStyle = [n \in PNodes |->
                       IF n = 0 THEN [BoxStyleOf(n, 0) EXCEPT !.top = BswClamp(lo, val, hi)]
                       ELSE BoxStyleOf(n, 0)]
    /\ viewport \in Viewports
    /\ focus = NoParent
    /\ scene = <<>>
    /\ query = NoQuery
    /\ panicked = FALSE
    /\ fsAttr = [n \in PNodes |-> Absent]
    /\ fontSize = [n \in PNodes |-> DefaultSize]
    /\ dirty = {}
    /\ lastReduce = NoCall
    /\ edits = 0
    /\ resolving = FALSE
    /\ sweep = 1
    /\ tag = [n \in PNodes |-> "div"]
    /\ ns = [n \in PNodes |-> ""]
    /\ attrs = [n \in PNodes |-> <<>>]
    /\ textDecoration = [n \in PNodes |-> DefaultTextDecoration]
    /\ font = [n \in PNodes |-> DefaultFont]
    /\ pending = [n \in PNodes |-> {}]
    /\ lastPass = NoPass
    /\ styleEdits = 0

SpecClamp == InitClamp /\ [][NextPaint]_vars

\* ------------------------------------------------------ cascade: claims
\* the resolve pass is over
Quiescent == ~panicked /\ dirty = {}

\* lastReduce is the call reduce(n), and the node's attribute and its parent's
\* record are still the ones that call read
JustReduced(n) == lastReduce.node = n /\ (n \notin dirty \/ panicked)

\* the parent size reduce(n) reads
ParentSizeOf(n) == IF parentOf[n] = NoParent THEN 1600 ELSE fontSize[parentOf[n]]

Parsed(n) == ParseFontSize(fsAttr[n].s)
Parses(n) == fsAttr[n].k = "text" /\ Parsed(n).ok
IsUnit(n, u) ==
    Parses(n) /\ Parsed(n).form = "length" /\ Parsed(n).len.t = "dim"
              /\ Parsed(n).len.d.unit = u
IsPercentage(n) == Parses(n) /\ Parsed(n).form = "length" /\ Parsed(n).len.t = "pct"

IsChainExample ==
    /\ parentOf[1] = 0 /\ parentOf[2] = 1
    /\ fontSize[0] = 1600
    /\ fsAttr[1] = Text("2em") /\ fsAttr[2] = Text("50%")

\* C1: after a top-down resolve pass, a node with font-size 'k em' holds
\* k x its parent's size, one with 'p%' holds the parent's size x p/100, a
\* parentless node taking 16.0 for the parent; in the chain root(16) ->
\* A('2em') -> B('50%'), A holds 32 and B holds 16.
C1_CascadeTopDown ==
    Quiescent =>
        /\ \A n \in CNodes :
            /\ IsUnit(n, "em") =>
                 fontSize[n] * 100 = Parsed(n).len.d.v * ParentSizeOf(n)
            /\ IsPercentage(n) =>
                 fontSize[n] * 100 = ParentSizeOf(n) * Parsed(n).len.v
        /\ IsChainExample => fontSize[1] = 3200 /\ fontSize[2] = 1600

C1_Witness ==
    /\ Quiescent /\ IsChainExample
    /\ lastReduce.node = 2
    /\ fontSize[1] = 3200 /\ fontSize[2] = 1600

\* C2: reduce returns true exactly when the stored size after the call
\* differs from the one before; a recomputation to the same value (text
\* "16.0px" on a record holding 16) returns false, leaves the record alone
\* and makes no child dirty.
C2_ReturnsTrueIffChanged ==
    /\ [](\A n \in CNodes :
            JustReduced(n) /\ ~panicked =>
                /\ lastReduce.ret <=> (fontSize[n] # lastReduce.before)
                /\ (fsAttr[n] = Text("16.0px") /\ lastReduce.before = 1600) =>
                      ~lastReduce.ret /\ fontSize[n] = 1600)
    /\ [][\A n \in CNodes :
            (ReduceNode(n) /\ ~panicked' /\ fontSize[n]' = fontSize[n]) =>
                (~lastReduce'.ret /\ dirty' = dirty \ {n})]_vars

C2_Witness ==
    \E n \in CNodes :
        /\ JustReduced(n) /\ ~panicked
        /\ fsAttr[n] = Text("16.0px") /\ edits = 2
        /\ lastReduce.before = 1600 /\ ~lastReduce.ret /\ fontSize[n] = 1600
        /\ ChildrenOf(n) # {} /\ dirty = {}

\* the attribute is there and is not text, or its text does not parse
Unparseable(a) ==
    \/ a.k \notin {"absent", "text"}
    \/ a.k = "text" /\ ~ParseFontSize(a.s).ok

\* C8: reduce on a font-size attribute that is not text or does not parse
\* returns false and keeps the previous size, whatever it and the parent's
\* size are: no fallback to 16.0, no fatal failure.
C8_UnparseableRetains ==
    \A n \in CNodes :
        JustReduced(n) /\ Unparseable(fsAttr[n]) =>
            /\ ~panicked
            /\ ~lastReduce.ret
            /\ fontSize[n] = lastReduce.before

C8_Witness ==
    \E n \in CNodes :
        /\ JustReduced(n) /\ Unparseable(fsAttr[n])
        /\ lastReduce.before # DefaultSize
        /\ fontSize[n] = lastReduce.before

\* C14: reduce on a node without a font-size attribute returns false and
\* leaves the stored size as it was, whatever the parent's size is; a record
\* changes only in a reduce of a node whose attribute parses, so a node that
\* never had one holds 16.0 and a node whose attribute was removed keeps the
\* size computed while it was there.
C14_NoAttributeKeepsSize ==
    /\ [](\A n \in CNodes :
            (JustReduced(n) /\ fsAttr[n] = Absent) =>
                /\ ~panicked
                /\ ~lastReduce.ret
                /\ fontSize[n] = lastReduce.before)
    /\ [][\A n \in CNodes :
            fontSize[n]' # fontSize[n] => (Parses(n) /\ fsAttr[n]' = fsAttr[n])]_vars

\* C14 witness: the root's attribute "2em" was removed and the root reduced
\* again, keeping 32; its child never had the attribute and holds 16 under it.
C14_Witness ==
    /\ Quiescent /\ edits = 2
    /\ JustReduced(0) /\ fsAttr[0] = Absent
    /\ lastReduce.before = 3200 /\ fontSize[0] = 3200
    /\ \E c \in ChildrenOf(0) : fsAttr[c] = Absent /\ fontSize[c] = 1600

\* what the Unit Resolution Engine gives for the node's length, called as the
\* cascade calls it: container and font size are the parent's size
EngineSize(n) == Resolve(Parsed(n).len, ParentSizeOf(n), ParentSizeOf(n), viewport)

\* C10: a font-size that parses as a length in a unit the engine supports,
\* other than em and rem, resolves to the pixel value the engine gives for it
\* and does not fail fatally.
C10_LengthThroughEngine ==
    \A n \in CNodes :
        ( /\ JustReduced(n)
          /\ Parses(n) /\ Parsed(n).form = "length"
          /\ ~IsUnit(n, "em") /\ ~IsUnit(n, "rem")
          /\ EngineSize(n).ok )
        => (~panicked /\ fontSize[n] = EngineSize(n).v)

\* -------------------------------------------------- style passes: claims
\* lastPass is the TextDecoration pass on n, and n's attributes are still the
\* ones it read
JustPassedTd(n) ==
    lastPass.pass = "td" /\ lastPass.node = n /\ "td" \notin pending[n]

JustPassedFont(n) ==
    lastPass.pass = "font" /\ lastPass.node = n /\ ("font" \notin pending[n] \/ panicked)

\* the value of the node's attribute `name`, Absent when it has none
AttrOf(n, name) ==
    IF HasAttr(attrs[n], name)
    THEN attrs[n][CHOOSE i \in 1 .. Len(attrs[n]) : attrs[n][i].name = name].value
    ELSE Absent

LineParses(n) ==
    AttrOf(n, "text-decoration-line").k = "text"
        /\ ParseLine(AttrOf(n, "text-decoration-line").s).ok
LineValue(n) == ParseLine(AttrOf(n, "text-decoration-line").s).v
ShorthandParses(n) ==
    AttrOf(n, "text-decoration").k = "text"
        /\ ParseShorthand(AttrOf(n, "text-decoration").s).ok
ShorthandLine(n) == ParseShorthand(AttrOf(n, "text-decoration").s).v.line

IsDelUnderline(n) ==
    /\ tag[n] = "del" /\ ns[n] = ""
    /\ AttrOf(n, "text-decoration-line") = Text("underline")
    /\ ~HasAttr(attrs[n], "text-decoration")

\* C5: the pass applies the tag heuristic, then the attributes, and the
\* attribute wins: a parseable text-decoration-line replaces the heuristic's
\* line flags (the line is the attribute's value, or the shorthand's when a
\* parseable shorthand is there too), and a 'del' element with
\* text-decoration-line="underline" ends with exactly underline.
C5_AttributeOverridesHeuristic ==
    \A n \in StyleNodes :
        JustPassedTd(n) =>
            /\ (LineParses(n) /\ ~ShorthandParses(n)) =>
                  textDecoration[n].line = LineValue(n)
            /\ (LineParses(n) /\ ShorthandParses(n)) =>
                  textDecoration[n].line \in {LineValue(n), ShorthandLine(n)}
            /\ IsDelUnderline(n) => textDecoration[n].line = {"underline"}

C5_Witness ==
    \E n \in StyleNodes :
        JustPassedTd(n) /\ IsDelUnderline(n) /\ textDecoration[n].line = {"underline"}

\* C9: the Font pass on a node that carries watched attributes parses each
\* and assigns its sub-field of the new record without failing: the names the
\* pass handles are the names it watches.
C9_FontPassHandlesWatched ==
    \A n \in StyleNodes :
        JustPassedFont(n) =>
            /\ ~panicked
            /\ AttrOf(n, "font-weight") = Text("bold") => font[n].weight = "bold"
            /\ AttrOf(n, "font-size") = Text("20px") => font[n].size = 2000

\* ---------------------------------------------------------- paint: claims
\* a frame has been painted to its end
Painted == scene # <<>> /\ ~panicked

\* the places of node n's commands in the scene
CommandsOf(n) == {i \in 1 .. Len(scene) : scene[i].node = n}

Descendants(n) == {d \in DOMAIN parentOf : n \in Ancestors(d)}

\* the nodes of the subtree under n, n included
Subtree(n) == {n} \cup Descendants(n)

SameShape(c, sh) ==
    c.x0 = sh.x0 /\ c.y0 = sh.y0 /\ c.x1 = sh.x1 /\ c.y1 = sh.y1 /\ c.radii = sh.radii

\* the top border width of n resolved with min(box width, box height) as the
\* container size
WidthOfTop(n) == Resolve(boxStyle[n].top, MinOf(layout[n].w, layout[n].h), font[n].size, viewport).v

\* C3: the focused element's commands are exactly three, one after the
\* other and before every command of its descendants: a white stroke on its
\* geometry, a black stroke on the same geometry, a fill in its background
\* colour on the geometry shrunk by 3.0 on every side.
C3_FocusedPaint ==
    \A n \in PNodes :
        (scene # <<>> /\ focus = n) =>
            LET g == GetShape(n, PaintPos(n).x, PaintPos(n).y) IN
            /\ ~panicked => CommandsOf(n) # {}
            /\ CommandsOf(n) # {} =>
                \E i \in 1 .. Len(scene) :
                    /\ CommandsOf(n) = {i, i + 1, i + 2}
                    /\ scene[i].op = "stroke" /\ scene[i].color = White
                    /\ SameShape(scene[i], g)
                    /\ scene[i + 1].op = "stroke" /\ scene[i + 1].color = Black
                    /\ SameShape(scene[i + 1], g)
                    /\ scene[i + 2].op = "fill"
                    /\ scene[i + 2].color = boxStyle[n].background
                    /\ scene[i + 2].x0 = g.x0 + 300 /\ scene[i + 2].y0 = g.y0 + 300
                    /\ scene[i + 2].x1 = g.x1 - 300 /\ scene[i + 2].y1 = g.y1 - 300
                    /\ \A d \in Descendants(n) : \A j \in CommandsOf(d) : j > i + 2

C3_Witness ==
    \E n \in PNodes :
        /\ Painted /\ focus = n
        /\ Cardinality(CommandsOf(n)) = 3
        /\ \E d \in Descendants(n) : CommandsOf(d) # {}

\* the number of commands one visit of render_node sends for n itself
OwnCommands(n) ==
    CASE kind[n] = "text" -> 1
      [] kind[n] = "element" -> IF focus = n THEN 3 ELSE 2
      [] OTHER -> 0

\* C4: the scene is one depth-first walk in document order: an element's
\* commands come before those of all its descendants, the subtrees of two
\* children follow one another in child order without interleaving, and in a
\* frame painted to its end every text and element node has the commands of
\* exactly one visit.
C4_DocumentOrderWalk ==
    /\ \A n \in PNodes : \A d \in Descendants(n) :
         \A i \in CommandsOf(n), j \in CommandsOf(d) : i < j
    /\ \A a, b \in PNodes :
         (a < b /\ parentOf[a] = parentOf[b]) =>
             \A c \in Subtree(a), d \in Subtree(b) :
                 \A i \in CommandsOf(c), j \in CommandsOf(d) : i < j
    /\ Painted => \A n \in PNodes : Cardinality(CommandsOf(n)) = OwnCommands(n)

C4_Witness ==
    /\ Painted
    /\ parentOf[1] = 0 /\ parentOf[2] = 1 /\ parentOf[3] = 0
    /\ kind[2] = "text" /\ kind[3] = "element"
    /\ \A n \in PNodes : CommandsOf(n) # {}

\* C13: a non-focused element's commands are exactly two, one after the other
\* and before every command of its descendants: first the fill in its
\* background colour, then the stroke in its top-border colour with the top
\* border width resolved against min(box width, box height), both on the
\* geometry of get_shape.
C13_PlainFillThenStroke ==
    \A n \in PNodes :
        (scene # <<>> /\ kind[n] = "element" /\ focus # n /\ CommandsOf(n) # {}) =>
            LET g == GetShape(n, PaintPos(n).x, PaintPos(n).y) IN
            \E i \in 1 .. Len(scene) :
                /\ CommandsOf(n) = {i, i + 1}
                /\ scene[i].op = "fill"
                /\ scene[i].color = boxStyle[n].background
                /\ SameShape(scene[i], g)
                /\ scene[i + 1].op = "stroke"
                /\ scene[i + 1].color = boxStyle[n].colorTop
                /\ scene[i + 1].width = WidthOfTop(n)
                /\ SameShape(scene[i + 1], g)
                /\ \A d \in Descendants(n) : \A j \in CommandsOf(d) : j > i + 1

\* ------------------------------------------------------- geometry: claims
\* the width get_shape takes for an edge of n
WidthFor(n, w) ==
    IF focus = n THEN 600
    ELSE Resolve(w, MinOf(layout[n].w, layout[n].h), font[n].size, viewport).v

IsBoxExample(n) ==
    /\ focus # n
    /\ layout[n].w = 10000 /\ layout[n].h = 10000
    /\ \A w \in {boxStyle[n].left, boxStyle[n].right, boxStyle[n].top, boxStyle[n].bottom} :
         w = BswLen("px", 1000)

\* C6: get_shape returns the rectangle from (x + wl/2, y + wt/2) to
\* (x + width - wr/2, y + height - wb/2), with the edges' resolved border
\* widths, or 6.0 for all four when the node is focused; a 100x100 box with
\* uniform width 10 gives (5,5)-(95,95) from its origin.
C6_ShapeInsetByHalfWidths ==
    \A n \in PNodes :
        (query.fn = "get_shape" /\ query.node = n /\ query.ok) =>
            LET x == PaintPos(n).x
                y == PaintPos(n).y
            IN  /\ query.x0 = x + WidthFor(n, boxStyle[n].left) \div 2
                /\ query.y0 = y + WidthFor(n, boxStyle[n].top) \div 2
                /\ query.x1 = x + layout[n].w - WidthFor(n, boxStyle[n].right) \div 2
                /\ query.y1 = y + layout[n].h - WidthFor(n, boxStyle[n].bottom) \div 2
                /\ IsBoxExample(n) =>
                     /\ query.x0 - x = 500 /\ query.y0 - y = 500
                     /\ query.x1 - x = 9500 /\ query.y1 - y = 9500

C6_Witness ==
    \E n \in PNodes :
        /\ query.fn = "get_shape" /\ query.node = n /\ query.ok
        /\ IsBoxExample(n)
        /\ query.x0 - PaintPos(n).x = 500 /\ query.x1 - PaintPos(n).x = 9500

RECURSIVE SumX(_), SumY(_)
\* the layout offsets of a set of nodes, added up
SumX(S) == IF S = {} THEN 0 ELSE LET m == CHOOSE m \in S : TRUE IN layout[m].x + SumX(S \ {m})
SumY(S) == IF S = {} THEN 0 ELSE LET m == CHOOSE m \in S : TRUE IN layout[m].y + SumY(S \ {m})

IsAbsPosExample ==
    /\ parentOf[1] = 0 /\ parentOf[2] = 1 /\ parentOf[3] = 2
    /\ layout[1].x = 1000 /\ layout[1].y = 1000
    /\ layout[2].x = 500 /\ layout[2].y = 0
    /\ layout[3].x = 0 /\ layout[3].y = 500

\* C7: get_abs_pos of a node is its own layout offset plus the offsets of its
\* ancestors below the root, at every depth; the root's offset is not added
\* for its descendants; offsets (10,10), (5,0), (0,5) down a chain below the
\* root give (15,15).
C7_AbsPosSkipsRoot ==
    \A n \in PNodes :
        (query.fn = "get_abs_pos" /\ query.node = n) =>
            /\ query.x0 = layout[n].x + SumX(Ancestors(n) \ {0})
            /\ query.y0 = layout[n].y + SumY(Ancestors(n) \ {0})
            /\ (IsAbsPosExample /\ n = 3) => (query.x0 = 1500 /\ query.y0 = 1500)

C7_Witness ==
    /\ IsAbsPosExample
    /\ layout[0].x = 300 /\ layout[0].y = 400
    /\ query.fn = "get_abs_pos" /\ query.node = 3
    /\ query.x0 = 1500 /\ query.y0 = 1500

\* ----------------------------------------------------- positions: claims
\* the first command render_node sent for n in this frame
FirstCommand(n) == scene[CHOOSE i \in CommandsOf(n) : \A j \in CommandsOf(n) : i <= j]

\* the position render_node had accumulated for n, read back from that
\* command: a text run is placed at pos + (0, 16), an element's first stroke is
\* on get_shape's rectangle, whose corner is pos moved in by half the left and
\* top widths
RenderPosOf(n) ==
    IF kind[n] = "text"
    THEN [x |-> FirstCommand(n).x0, y |-> FirstCommand(n).y0 - 1600]
    ELSE [x |-> FirstCommand(n).x0 - WidthFor(n, boxStyle[n].left) \div 2,
          y |-> FirstCommand(n).y0 - WidthFor(n, boxStyle[n].top) \div 2]

\* get_abs_pos has just been called on a node this frame has painted
Compared(n) == query.fn = "get_abs_pos" /\ query.node = n /\ CommandsOf(n) # {}

RootAtOrigin == layout[0].x = 0 /\ layout[0].y = 0

\* C15 as stated: for every painted node, the root included, the position of
\* render_node is get_abs_pos plus the root's layout offset, and the two agree
\* for every node exactly when that offset is (0,0).
C15_RenderPosIsAbsPosPlusRoot ==
    \A n \in PNodes :
        Compared(n) =>
            /\ RenderPosOf(n).x = query.x0 + layout[0].x
            /\ RenderPosOf(n).y = query.y0 + layout[0].y
            /\ (RenderPosOf(n).x = query.x0 /\ RenderPosOf(n).y = query.y0) <=> RootAtOrigin

\* C15, amended: for every painted node other than the root the position of
\* render_node is get_abs_pos plus the root's layout offset, so the two agree
\* at such a node exactly when that offset is (0,0); at the root both are the
\* root's own layout offset, whatever it is.
C15_RenderPosBelowRoot ==
    \A n \in PNodes :
        Compared(n) =>
            /\ n # 0 =>
                 /\ RenderPosOf(n).x = query.x0 + layout[0].x
                 /\ RenderPosOf(n).y = query.y0 + layout[0].y
                 /\ (RenderPosOf(n).x = query.x0 /\ RenderPosOf(n).y = query.y0)
                       <=> RootAtOrigin
            /\ n = 0 =>
                 /\ RenderPosOf(n).x = query.x0 /\ query.x0 = layout[0].x
                 /\ RenderPosOf(n).y = query.y0 /\ query.y0 = layout[0].y

\* C15 witness: a frame painted to its end with the root off the origin, and
\* get_abs_pos called on a painted node two levels below the root.
C15_Witness ==
    \E n \in PNodes :
        /\ Painted /\ Compared(n) /\ ~RootAtOrigin
        /\ parentOf[n] # NoParent /\ parentOf[n] # 0
        /\ RenderPosOf(n).x = query.x0 + 300 /\ RenderPosOf(n).y = query.y0 + 400

\* ------------------------------------------- Font pass and geometry: claims
\* a border width of r rem
IsRemWidth(w) == w.t = "bswlen" /\ w.d.t = "len" /\ w.d.d.unit = "rem"
RemOfWidth(w) == w.d.d.v
\* a radius of r rem
IsRemRadius(r) == r.t = "dim" /\ r.d.unit = "rem"

\* some Font pass has completed on the node, and none is due
FontPassed(n) == "font" \notin pending[n]

\* C11: in get_shape's border widths and radii and in render_node's stroke
\* width a value of r rem resolves to r x 16.0: the font size handed to
\* resolve is the node's Font.size, which is 16.0 after every sequence of
\* Font passes that complete.
C11_RemIsSixteen ==
    /\ \A n \in DOMAIN font : font[n].size = 1600
    /\ (query.fn = "get_shape" /\ query.ok /\ ~IsFocused(query.node)) =>
         LET n == query.node IN
         IsRemWidth(boxStyle[n].top) =>
            query.y0 = PaintPos(n).y + Mul(RemOfWidth(boxStyle[n].top), 1600) \div 2
    /\ \A i \in 1 .. Len(scene) :
         (scene[i].op = "stroke" /\ ~IsFocused(scene[i].node)) =>
            LET n == scene[i].node IN
            /\ IsRemWidth(boxStyle[n].top) =>
                 /\ scene[i].width = Mul(RemOfWidth(boxStyle[n].top), 1600)
                 /\ scene[i].y0 =
                      PaintPos(n).y + Mul(RemOfWidth(boxStyle[n].top), 1600) \div 2
            /\ IsRemRadius(boxStyle[n].radius) =>
                 \A k \in 1 .. 4 : scene[i].radii[k] = Mul(boxStyle[n].radius.d.v, 1600)

\* C11 witness: a node with a 1rem top border, on which a Font pass completed
\* after a mutation of its attributes, has been measured by get_shape and
\* stroked by render_node.
C11_Witness ==
    /\ ~panicked
    /\ query.fn = "get_shape" /\ query.ok
    /\ IsRemWidth(boxStyle[query.node].top)
    /\ IsRemRadius(boxStyle[query.node].radius)
    /\ attrs[query.node] # <<>>
    /\ FontPassed(query.node)
    /\ lastPass.pass = "font" /\ lastPass.node = query.node
    /\ \E i \in 1 .. Len(scene) :
         scene[i].op = "stroke" /\ scene[i].node = query.node /\ scene[i].width = 1600

\* ------------------------------------------------------------ clamp: claims
\* the operands of the root's top border width and their resolved values
ClampOf(n) == boxStyle[n].top.d.c.f
ResolvedOperand(n, e) == Resolve(e, AxisMin(layout[n]), font[n].size, viewport)

\* the root's stroke of this frame, painted while it was not focused
PlainStrokes(n) ==
    {i \in 1 .. Len(scene) : scene[i].op = "stroke" /\ scene[i].node = n /\ ~IsFocused(n)}

\* C12: resolve(Clamp(min, val, max)) is max(resolve(min), min(resolve(val),
\* resolve(max))) for all resolved operand values; whenever resolve(min) >
\* resolve(max) the result is resolve(min), independent of val.
C12_ClampFormula ==
    \A i \in PlainStrokes(0) :
        LET lo == ResolvedOperand(0, ClampOf(0).lo)
            val == ResolvedOperand(0, ClampOf(0).val)
            hi == ResolvedOperand(0, ClampOf(0).hi)
        IN  /\ lo.ok /\ val.ok /\ hi.ok
            /\ scene[i].width = (IF lo.v >= (IF val.v <= hi.v THEN val.v ELSE hi.v)
                                 THEN lo.v
                                 ELSE (IF val.v <= hi.v THEN val.v ELSE hi.v))
            /\ lo.v > hi.v => scene[i].width = lo.v
            /\ (lo.v <= hi.v /\ lo.v <= val.v /\ val.v <= hi.v) => scene[i].width = val.v

\* C12 witness: a clamp with resolve(min) > resolve(max) and a val below both
\* has been resolved for the stroke width.
C12_Witness ==
    \E i \in PlainStrokes(0) :
        /\ ResolvedOperand(0, ClampOf(0).lo).v > ResolvedOperand(0, ClampOf(0).hi).v
        /\ ResolvedOperand(0, ClampOf(0).val).v < ResolvedOperand(0, ClampOf(0).hi).v
        /\ ClampOf(0).lo.d.d.unit # ClampOf(0).hi.d.d.unit
        /\ scene[i].width = ResolvedOperand(0, ClampOf(0).lo).v

\* ----------------------------------------------------------- sweeps: claims
\* the sweep that is running comes after a whole earlier sweep of the same
\* tags and attributes
LaterSweep == sweep >= 2

\* the TextDecoration pass has run on n in the sweep that is running
TdSwept(n) == "td" \notin pending[n]

\* C16: one sweep reaches the fixed point, whatever the records held before
\* it: in a later sweep with the same tags and attributes every reduce and
\* every TextDecoration pass returns false and changes no record, and the
\* record a TextDecoration pass leaves is the one it would leave from any
\* other previous record.
C16_FixedPointInOneSweep ==
    /\ [][\A n \in CNodes :
            (LaterSweep /\ ReduceNode(n)) =>
                (~panicked' /\ ~lastReduce'.ret /\ fontSize' = fontSize)]_vars
    /\ [][\A n \in StyleNodes :
            (LaterSweep /\ TextDecorationPass(n)) =>
                (~lastPass'.ret /\ textDecoration' = textDecoration)]_vars
    /\ [](\A n \in StyleNodes :
            TdSwept(n) =>
                \A r \in TdRecords :
                    TextDecorationPassFn(r, tag[n], ns[n], attrs[n]).rec = textDecoration[n])

\* C16 witness: the second sweep is over on the chain root('2em') ->
\* A('50%') -> B('larger'); its last reduce and its TextDecoration pass
\* returned false.
C16_Witness ==
    /\ sweep = 2 /\ Quiescent /\ \A n \in StyleNodes : TdSwept(n)
    /\ parentOf[1] = 0 /\ parentOf[2] = 1
    /\ fsAttr[0] = Text("2em") /\ fsAttr[1] = Text("50%") /\ fsAttr[2] = Text("larger")
    /\ fontSize[0] = 3200 /\ fontSize[1] = 1600 /\ fontSize[2] = 1800
    /\ lastReduce.node = 2 /\ lastReduce.before = 1800 /\ ~lastReduce.ret
    /\ lastPass.pass = "td" /\ ~lastPass.ret
    /\ textDecoration[0] = DefaultTextDecoration
====
